---- MODULE Spec2Model ----
(***************************************************************************)
(* Model of the ingestion core of pop_dupe: the fixed-window chunker       *)
(* (app/chunker.py), the temporal segment merge and the YouTube            *)
(* acquisition cascade (app/ingest.py), and the flat-file store            *)
(* (app/storage.py) with the vector index (app/vector_store.py).           *)
(*                                                                         *)
(* Strings are sequences of one-character strings, so that slicing,        *)
(* stripping and joining are computed rather than assumed.  Times are      *)
(* integers counting tenths of a second (2.5 s = 25, 60.0 s = 600).        *)
(***************************************************************************)
EXTENDS Integers, Sequences, FiniteSets, TLC

VARIABLES
    \* chunk_text (app/chunker.py)
    ck_pc, ck_raw, ck_text, ck_max, ck_ovl, ck_start, ck_chunks, ck_starts,
    \* _merge_segments (app/ingest.py)
    mg_pc, mg_segs, mg_par, mg_texts, mg_metas,
    \* the store db.json, the captions directory and the vector collection
    db, captions, vindex, next_id,
    \* ingest_youtube (app/ingest.py)
    pc, req, text, segments, calls, last_err, attempt, outfile, result, pre, runs,
    \* the last retrieval call (vector_store.query), the last chat request
    \* (api_chat), and two concurrent ingestion requests
    rt, chat, cc

ck_vars == <<ck_pc, ck_raw, ck_text, ck_max, ck_ovl, ck_start, ck_chunks, ck_starts>>
mg_vars == <<mg_pc, mg_segs, mg_par, mg_texts, mg_metas>>
st_vars == <<db, captions, vindex, next_id>>
yt_vars == <<pc, req, text, segments, calls, last_err, attempt, outfile, result, pre, runs>>
ex_vars == <<rt, chat, cc>>
vars == <<ck_vars, mg_vars, st_vars, yt_vars, ex_vars>>

(***************************************************************************)
(* Bounds of the model.                                                    *)
(***************************************************************************)
MaxTextLen == 5
MaxWin == 3
MaxChunks == 6
MaxSegs == 3
MaxItems == 3
MaxEntries == 2
MaxRuns == 2
MaxChatItems == 2
MaxConcChunks == 2

(***************************************************************************)
(* Strings.                                                                *)
(***************************************************************************)
Whitespace == {" "}
Chars == {"a", "b", " "}

Min(a, b) == IF a < b THEN a ELSE b
Max(a, b) == IF a > b THEN a ELSE b

RECURSIVE LStrip(_)
LStrip(s) ==
    IF s = <<>> THEN s
    ELSE IF Head(s) \in Whitespace THEN LStrip(Tail(s)) ELSE s

RECURSIVE RStrip(_)
RStrip(s) ==
    IF s = <<>> THEN s
    ELSE IF s[Len(s)] \in Whitespace THEN RStrip(SubSeq(s, 1, Len(s) - 1)) ELSE s

\* str.strip()
Strip(s) == RStrip(LStrip(s))

\* " ".join(parts)
RECURSIVE JoinSp(_)
JoinSp(parts) ==
    IF parts = <<>> THEN <<>>
    ELSE IF Len(parts) = 1 THEN parts[1]
    ELSE parts[1] \o <<" ">> \o JoinSp(Tail(parts))

\* text[a:b] for 0 <= a <= b <= len(text), with Python's 0-based offsets
Slice(s, a, b) == SubSeq(s, a + 1, b)

(***************************************************************************)
(* chunk_text(text, max_chars = 1200, overlap = 150)                       *)
(***************************************************************************)
DefaultMaxChars == 1200
DefaultOverlap == 150

WindowEndShort(start, max_chars, n) == Min(start + max_chars - 1, n)

\* end = min(start + max_chars, n)
WindowEnd(start, max_chars, n) == Min(start + max_chars, n)

NextStartNoOverlap(end, overlap) == end

\* start = max(0, end - overlap)
NextStart(end, overlap) == Max(0, end - overlap)

\* The text of the spec's example, "A" * 2500
ExampleText == [i \in 1..2500 |-> "a"]

ChunkInit ==
    /\ ck_pc = "input"
    /\ ck_raw = <<>>
    /\ ck_text = <<>>
    /\ ck_max = 0
    /\ ck_ovl = 0
    /\ ck_start = 0
    /\ ck_chunks = <<>>
    /\ ck_starts = <<>>

\* The caller builds the argument text, one character at a time.
ChunkType(c) ==
    /\ ck_pc = "input"
    /\ Len(ck_raw) < MaxTextLen
    /\ ck_raw' = Append(ck_raw, c)
    /\ UNCHANGED <<ck_pc, ck_text, ck_max, ck_ovl, ck_start, ck_chunks, ck_starts>>
    /\ UNCHANGED <<mg_vars, st_vars, yt_vars, ex_vars>>

\* The caller takes the 2500-character example text as the argument.
ChunkTypeExample ==
    /\ ck_pc = "input"
    /\ ck_raw = <<>>
    /\ ck_raw' = ExampleText
    /\ UNCHANGED <<ck_pc, ck_text, ck_max, ck_ovl, ck_start, ck_chunks, ck_starts>>
    /\ UNCHANGED <<mg_vars, st_vars, yt_vars, ex_vars>>

\* chunker.py lines 4-10: strip, the empty check, and the loop's set-up.
ChunkEnter(max_chars, overlap) ==
    /\ ck_pc = "input"
    /\ ck_max' = max_chars
    /\ ck_ovl' = overlap
    /\ ck_text' = Strip(ck_raw)
    /\ ck_start' = 0
    /\ ck_chunks' = <<>>
    /\ ck_starts' = <<>>
    /\ ck_pc' = IF Strip(ck_raw) = <<>> THEN "done" ELSE "loop"
    /\ UNCHANGED ck_raw
    /\ UNCHANGED <<mg_vars, st_vars, yt_vars, ex_vars>>

\* chunk_text(text, max_chars, overlap) with explicit window parameters
ChunkCall ==
    \E m \in 1..MaxWin, o \in 0..MaxWin :
        /\ Len(ck_raw) <= MaxTextLen
        /\ ChunkEnter(m, o)

\* chunk_text(text), as every caller in ingest.py calls it
ChunkCallDefault == ChunkEnter(DefaultMaxChars, DefaultOverlap)

\* chunker.py lines 11-17: one iteration of the while loop.  A run of the
\* loop that never ends is cut off after MaxChunks windows.
ChunkLoop ==
    /\ ck_pc = "loop"
    /\ Len(ck_chunks) < MaxChunks
    /\ LET n == Len(ck_text)
           end == WindowEnd(ck_start, ck_max, n)
       IN /\ ck_chunks' = Append(ck_chunks, Slice(ck_text, ck_start, end))
          /\ ck_starts' = Append(ck_starts, ck_start)
          /\ IF end = n
             THEN ck_pc' = "done" /\ ck_start' = ck_start
             ELSE /\ ck_start' = NextStart(end, ck_ovl)
                  /\ ck_pc' = IF NextStart(end, ck_ovl) < n THEN "loop" ELSE "done"
    /\ UNCHANGED <<ck_raw, ck_text, ck_max, ck_ovl>>
    /\ UNCHANGED <<mg_vars, st_vars, yt_vars, ex_vars>>

ChunkNext ==
    \/ \E c \in Chars : ChunkType(c)
    \/ ChunkTypeExample
    \/ ChunkCall
    \/ ChunkCallDefault
    \/ ChunkLoop

\* chunk_text as a function, for callers that pass max_chars > overlap
RECURSIVE ChunkWindows(_, _, _, _)
ChunkWindows(t, start, max_chars, overlap) ==
    LET n == Len(t)
        end == WindowEnd(start, max_chars, n)
    IN IF end = n \/ ~(NextStart(end, overlap) < n)
       THEN <<Slice(t, start, end)>>
       ELSE <<Slice(t, start, end)>> \o ChunkWindows(t, NextStart(end, overlap), max_chars, overlap)

chunk_text(t, max_chars, overlap) ==
    IF Strip(t) = <<>> THEN <<>> ELSE ChunkWindows(Strip(t), 0, max_chars, overlap)

(***************************************************************************)
(* _merge_segments(segments, max_chars = 600, max_gap_s = 2.5,             *)
(*                 max_span_s = 60.0)                                      *)
(***************************************************************************)
MergeMaxChars == 600
MergeMaxGap == 25
MergeMaxSpan == 600

\* A tight character budget, so that chars_ok can fail on short texts.
SmallMaxChars == 4

\* Segment times: a segment never ends before it starts (ingest.py lines
\* 104, 125, 222: end = start + duration); lists may be out of order.
SegStarts == {0, 21, 100, 700}
SegEnds == {20, 40, 120, 720}
SegTexts == {<<"h", "i">>, <<"x">>}

\* [(0, 2, "hi"), (2.1, 4, "there"), (70, 72, "later")]
ExampleSegs ==
    << [start |-> 0, end |-> 20, text |-> <<"h", "i">>],
       [start |-> 21, end |-> 40, text |-> <<"t", "h", "e", "r", "e">>],
       [start |-> 700, end |-> 720, text |-> <<"l", "a", "t", "e", "r">>] >>

Seg(st, en, txt) == [start |-> st, end |-> en, text |-> txt]

MergeParams ==
    { [max_chars |-> mc, max_gap |-> MergeMaxGap, max_span |-> MergeMaxSpan] :
        mc \in {MergeMaxChars, SmallMaxChars} }

DefaultMergeParams ==
    [max_chars |-> MergeMaxChars, max_gap |-> MergeMaxGap, max_span |-> MergeMaxSpan]

CanExtendNoChars(cur, seg, par) ==
    /\ (seg.end - cur.start) <= par.max_span
    /\ (seg.start - cur.end) <= par.max_gap

CanExtendNoGap(cur, seg, par) ==
    /\ (seg.end - cur.start) <= par.max_span
    /\ (Len(cur.text) + 1 + Len(seg.text)) <= par.max_chars

\* ingest.py lines 140-143: may the candidate extend the open buffer?
CanExtend(cur, seg, par) ==
    /\ (seg.end - cur.start) <= par.max_span
    /\ (seg.start - cur.end) <= par.max_gap
    /\ (Len(cur.text) + 1 + Len(seg.text)) <= par.max_chars

\* ingest.py lines 144-145
ExtendDropText(cur, seg) == [start |-> cur.start, end |-> seg.end, text |-> cur.text]

Extend(cur, seg) ==
    [start |-> cur.start, end |-> seg.end, text |-> cur.text \o <<" ">> \o seg.text]

\* ingest.py lines 138-152: the loop over segments[1:] and the final emit.
\* out is the pair <<merged_texts, metas>>.
RECURSIVE MergeLoop(_, _, _, _, _)
MergeLoop(segs, i, cur, out, par) ==
    IF i > Len(segs)
    THEN <<Append(out[1], cur.text),
           Append(out[2], [start_s |-> cur.start, end_s |-> cur.end])>>
    ELSE IF CanExtend(cur, segs[i], par)
         THEN MergeLoop(segs, i + 1, Extend(cur, segs[i]), out, par)
         ELSE MergeLoop(segs, i + 1, segs[i],
                        <<Append(out[1], cur.text),
                          Append(out[2], [start_s |-> cur.start, end_s |-> cur.end])>>,
                        par)

_merge_segments(segs, par) ==
    IF segs = <<>> THEN <<<<>>, <<>>>>
    ELSE MergeLoop(segs, 2, segs[1], <<<<>>, <<>>>>, par)

MergeInit ==
    /\ mg_pc = "input"
    /\ mg_segs = <<>>
    /\ mg_par = DefaultMergeParams
    /\ mg_texts = <<>>
    /\ mg_metas = <<>>

\* The caller builds the argument list, one segment at a time.
MergeAddSegment ==
    \E st \in SegStarts, en \in SegEnds, txt \in SegTexts :
        /\ mg_pc = "input"
        /\ Len(mg_segs) < MaxSegs
        /\ st <= en
        /\ mg_segs' = Append(mg_segs, Seg(st, en, txt))
        /\ UNCHANGED <<mg_pc, mg_par, mg_texts, mg_metas>>
        /\ UNCHANGED <<ck_vars, st_vars, yt_vars, ex_vars>>

\* The caller passes the three segments of the worked example.
MergeExampleSegments ==
    /\ mg_pc = "input"
    /\ mg_segs = <<>>
    /\ mg_segs' = ExampleSegs
    /\ UNCHANGED <<mg_pc, mg_par, mg_texts, mg_metas>>
    /\ UNCHANGED <<ck_vars, st_vars, yt_vars, ex_vars>>

MergeCall ==
    \E par \in MergeParams :
        /\ mg_pc = "input"
        /\ mg_par' = par
        /\ mg_texts' = _merge_segments(mg_segs, par)[1]
        /\ mg_metas' = _merge_segments(mg_segs, par)[2]
        /\ mg_pc' = "done"
        /\ UNCHANGED mg_segs
        /\ UNCHANGED <<ck_vars, st_vars, yt_vars, ex_vars>>

MergeNext ==
    \/ MergeAddSegment
    \/ MergeExampleSegments
    \/ MergeCall

(***************************************************************************)
(* The store (app/storage.py) and the vector collection                    *)
(* (app/vector_store.py).  db is the content of db.json; a missing file    *)
(* reads as _default_db().  uuid4 identifiers of items are drawn from a    *)
(* counter, those of boards from BoardIds.  None is written NoTime in the  *)
(* start_s and end_s fields.                                               *)
(***************************************************************************)
BoardIds == {"b1", "b2"}
NoTime == -1
DocTexts == {<<>>, <<" ">>, <<"a">>, <<" ", "b">>}

_default_db == [boards |-> <<>>, items |-> <<>>, chunks |-> <<>>, groups |-> <<>>]

\* group is meta["group"]; <<>> when meta has no such key
Item(id, board_id, type) ==
    [id |-> id, board_id |-> board_id, type |-> type, group |-> <<>>]

Chunk(item_id, t, order, start_s, end_s) ==
    [item_id |-> item_id, text |-> t, order |-> order, start_s |-> start_s, end_s |-> end_s]

SeqToSet(q) == {q[i] : i \in 1..Len(q)}

ItemIds(d) == {d.items[i].id : i \in 1..Len(d.items)}

ChunksOf(d, item_id) == SelectSeq(d.chunks, LAMBDA c : c.item_id = item_id)

\* storage.py add_item
add_item(d, item) == [d EXCEPT !.items = Append(d.items, item)]

save_chunks_replacing(d, chunks) == [d EXCEPT !.chunks = chunks]

\* storage.py save_chunks
save_chunks(d, chunks) == [d EXCEPT !.chunks = d.chunks \o chunks]

\* storage.py create_board
create_board(d, board_id) == [d EXCEPT !.boards = Append(d.boards, board_id)]

\* storage.py delete_item_and_chunks
delete_item_and_chunks(d, item_id) ==
    [d EXCEPT !.items = SelectSeq(d.items, LAMBDA i : i.id # item_id),
              !.chunks = SelectSeq(d.chunks, LAMBDA c : c.item_id # item_id)]

\* storage.py delete_board: item_ids is built from the chunks, not from the
\* items of the board, so it holds the owner of every chunk of the store.
delete_board(d, board_id) ==
    LET items2 == SelectSeq(d.items, LAMBDA i : i.board_id # board_id)
        item_ids == {d.chunks[k].item_id : k \in 1..Len(d.chunks)}
    IN [boards |-> SelectSeq(d.boards, LAMBDA b : b # board_id),
        items |-> items2,
        chunks |-> SelectSeq(d.chunks, LAMBDA c : c.item_id \notin item_ids),
        groups |-> d.groups]

\* storage.py update_items_group
update_items_group(d, item_ids, group) ==
    [d EXCEPT !.items = [i \in 1..Len(d.items) |->
                           IF d.items[i].id \in SeqToSet(item_ids)
                           THEN [d.items[i] EXCEPT !.group = group]
                           ELSE d.items[i]]]

\* storage.py upsert_group: the first group of the board with that name
\* gets the template, or a new group is appended
upsert_group(d, board_id, name, template) ==
    LET found == {k \in 1..Len(d.groups) :
                    d.groups[k].board_id = board_id /\ d.groups[k].name = name}
    IN IF found = {}
       THEN [d EXCEPT !.groups =
                Append(d.groups, [board_id |-> board_id, name |-> name, template |-> template])]
       ELSE LET k == CHOOSE x \in found : \A y \in found : x <= y
            IN [d EXCEPT !.groups[k].template = template]

\* storage.py list_groups and list_items
list_groups(d, board_id) == SelectSeq(d.groups, LAMBDA g : g.board_id = board_id)

list_items(d, board_id) == SelectSeq(d.items, LAMBDA i : i.board_id = board_id)

\* storage.py save_captions
save_captions(caps, item_id, segs) ==
    [i \in (DOMAIN caps) \cup {item_id} |-> IF i = item_id THEN segs ELSE caps[i]]

\* vector_store.py add_chunks: ids are "<item_id>-<i>", item_id is stamped
\* on every metadata record.
add_chunks(ix, item_id, chunk_texts, metas) ==
    ix \cup { [id |-> <<item_id, i - 1>>, doc |-> chunk_texts[i], item_id |-> item_id,
               start_s |-> metas[i].start_s, end_s |-> metas[i].end_s] :
              i \in 1..Len(chunk_texts) }

NoMetas(n) == [i \in 1..n |-> [start_s |-> NoTime, end_s |-> NoTime]]

\* ingest.py lines 301-309: persistence of timestamped segments
PersistSegments(d, caps, ix, id, segs, embed_ok) ==
    LET m == _merge_segments(segs, DefaultMergeParams)
        texts == m[1]
        metas == m[2]
        chunks == [i \in 1..Len(texts) |->
                     Chunk(id, texts[i], i - 1, metas[i].start_s, metas[i].end_s)]
    IN [db |-> IF texts # <<>> /\ embed_ok THEN save_chunks(d, chunks) ELSE d,
        captions |-> save_captions(caps, id, segs),
        vindex |-> IF texts # <<>> /\ embed_ok THEN add_chunks(ix, id, texts, metas) ELSE ix,
        raised |-> texts # <<>> /\ ~embed_ok]

\* ingest.py lines 312-317 and 323-328: persistence of untimed text
PersistText(d, caps, ix, id, t, embed_ok) ==
    LET parts == chunk_text(t, DefaultMaxChars, DefaultOverlap)
        chunks == [i \in 1..Len(parts) |-> Chunk(id, parts[i], i - 1, NoTime, NoTime)]
    IN [db |-> IF parts # <<>> /\ embed_ok THEN save_chunks(d, chunks) ELSE d,
        captions |-> caps,
        vindex |-> IF parts # <<>> /\ embed_ok
                   THEN add_chunks(ix, id, parts, NoMetas(Len(parts))) ELSE ix,
        raised |-> parts # <<>> /\ ~embed_ok]

StoreInit ==
    /\ db = _default_db
    /\ captions = <<>>
    /\ vindex = {}
    /\ next_id = 1

\* POST /boards
ApiCreateBoard ==
    \E b \in BoardIds :
        /\ b \notin SeqToSet(db.boards)
        /\ db' = create_board(db, b)
        /\ UNCHANGED <<captions, vindex, next_id>>
        /\ UNCHANGED <<ck_vars, mg_vars, yt_vars, ex_vars>>

\* ingest_text_document: add_item, chunk_text, embed_texts (which may
\* raise), vs_add_chunks, save_chunks.
IngestDocumentOn(boards, max_items) ==
    \E b \in boards, t \in DocTexts, embed_ok \in BOOLEAN :
        /\ next_id <= max_items
        /\ LET r == PersistText(add_item(db, Item(next_id, b, "document")),
                                captions, vindex, next_id, t, embed_ok)
           IN /\ db' = r.db
              /\ vindex' = r.vindex
        /\ next_id' = next_id + 1
        /\ UNCHANGED captions
        /\ UNCHANGED <<ck_vars, mg_vars, yt_vars, ex_vars>>

IngestTextDocument == IngestDocumentOn(BoardIds, MaxItems)

\* DELETE /items/{item_id}
ApiDeleteItem ==
    \E i \in 1..MaxItems :
        /\ db' = delete_item_and_chunks(db, i)
        /\ UNCHANGED <<captions, vindex, next_id>>
        /\ UNCHANGED <<ck_vars, mg_vars, yt_vars, ex_vars>>

\* DELETE /boards/{board_id}
ApiDeleteBoard ==
    \E b \in BoardIds :
        /\ db' = delete_board(db, b)
        /\ UNCHANGED <<captions, vindex, next_id>>
        /\ UNCHANGED <<ck_vars, mg_vars, yt_vars, ex_vars>>

StoreNext ==
    \/ ApiCreateBoard
    \/ IngestTextDocument
    \/ ApiDeleteItem
    \/ ApiDeleteBoard

(***************************************************************************)
(* Two ingestion requests served at the same time (the handlers are plain  *)
(* functions, which the server runs on worker threads).  Each request      *)
(* calls add_item and then save_chunks; each of the two is a _load of      *)
(* db.json into a snapshot private to the request, a change of the         *)
(* snapshot, and a _save that replaces db.json by the snapshot.  A _load   *)
(* and a _save are one step each (os.replace is atomic; the two requests   *)
(* sharing the path db.json.tmp is left out).  cc.ver counts the saves and *)
(* cc.stale records that some save wrote a snapshot loaded before another  *)
(* save; neither is in the code.                                           *)
(***************************************************************************)
Procs == {1, 2}

ConcBoard == "b1"

ConcInit ==
    cc = [procs |-> [p \in Procs |-> [pc |-> "start", data |-> _default_db, n |-> 0, ver |-> 0]],
          ver |-> 0, stale |-> FALSE]

\* The chunks of the item of request p
ConcChunks(p, n) == [i \in 1..n |-> Chunk(p, <<"a">>, i - 1, NoTime, NoTime)]

\* _load, called by add_item or save_chunks of request p
ConcLoad(p, to) ==
    [cc EXCEPT !.procs[p].pc = to, !.procs[p].data = db, !.procs[p].ver = cc.ver]

\* _save, called by add_item or save_chunks of request p
ConcSave(p, to) ==
    [cc EXCEPT !.procs[p].pc = to, !.ver = @ + 1,
               !.stale = @ \/ cc.procs[p].ver # cc.ver]

\* add_item, line 81
AddItemLoad(p) ==
    /\ cc.procs[p].pc = "start"
    /\ \E n \in 1..MaxConcChunks :
          cc' = [ConcLoad(p, "add_item_loaded") EXCEPT !.procs[p].n = n]
    /\ UNCHANGED <<st_vars, ck_vars, mg_vars, yt_vars, rt, chat>>

\* add_item, lines 82-85
AddItemSave(p) ==
    /\ cc.procs[p].pc = "add_item_loaded"
    /\ db' = add_item(cc.procs[p].data, Item(p, ConcBoard, "document"))
    /\ cc' = ConcSave(p, "add_item_saved")
    /\ UNCHANGED <<captions, vindex, next_id, ck_vars, mg_vars, yt_vars, rt, chat>>

\* save_chunks, line 90
SaveChunksLoad(p) ==
    /\ cc.procs[p].pc = "add_item_saved"
    /\ cc' = ConcLoad(p, "save_chunks_loaded")
    /\ UNCHANGED <<st_vars, ck_vars, mg_vars, yt_vars, rt, chat>>

\* save_chunks, lines 91-94
SaveChunksSave(p) ==
    /\ cc.procs[p].pc = "save_chunks_loaded"
    /\ db' = save_chunks(cc.procs[p].data, ConcChunks(p, cc.procs[p].n))
    /\ cc' = ConcSave(p, "done")
    /\ UNCHANGED <<captions, vindex, next_id, ck_vars, mg_vars, yt_vars, rt, chat>>

ConcNext ==
    \E p \in Procs :
        \/ AddItemLoad(p)
        \/ AddItemSave(p)
        \/ SaveChunksLoad(p)
        \/ SaveChunksSave(p)

(***************************************************************************)
(* Retrieval (app/vector_store.py).  Embeddings are two-dimensional        *)
(* integer vectors of norm 0, 1 or 5; similarities are counted in units    *)
(* of 1/25 and MMR scores in units of 1/250, so that every comparison of   *)
(* the code is made on exact numbers.                                      *)
(***************************************************************************)
SimScale == 25
LambdaMult == 7
BestScoreInit == -1000000000

\* llm.py embed_texts: the embedding model, a fixed function of the text.
Embedding(t) ==
    LET s == Strip(t)
    IN IF s = <<>> THEN <<0, 0>>
       ELSE CASE s[1] = "a" -> <<1, 0>>
              [] s[1] = "b" -> <<3, 4>>
              [] s[1] = "c" -> <<0, 1>>
              [] s[1] = "q" -> <<4, 3>>
              [] OTHER -> <<0, 0>>

\* vector_store.py lines 23-28, in units of 1/SimScale
_cosine_similarity(a, b) ==
    LET Norm(v) == LET r == CHOOSE n \in 0..5 : n * n = v[1] * v[1] + v[2] * v[2]
                   IN IF r = 0 THEN 1 ELSE r
        dot == a[1] * b[1] + a[2] * b[2]
    IN (dot * SimScale) \div (Norm(a) * Norm(b))

MmrScoreRelevanceOnly(q_sim, max_sim_selected) == LambdaMult * q_sim

\* line 43
MmrScore(q_sim, max_sim_selected) ==
    LambdaMult * q_sim - (10 - LambdaMult) * max_sim_selected

\* line 42: max(..., default=0.0)
MaxSimSelected(doc_embs, idx, selected) ==
    IF selected = <<>> THEN 0
    ELSE LET sims == {_cosine_similarity(doc_embs[idx], doc_embs[selected[j]]) :
                        j \in 1..Len(selected)}
         IN CHOOSE m \in sims : \A x \in sims : x <= m

\* lines 39-46: the scan of the candidates for the best score; best_idx = 0
\* stands for None.
RECURSIVE ScanBest(_, _, _, _, _, _, _)
ScanBest(q_emb, doc_embs, candidates, selected, k, best_idx, best_score) ==
    IF k > Len(candidates) THEN best_idx
    ELSE LET idx == candidates[k]
             score == MmrScore(_cosine_similarity(q_emb, doc_embs[idx]),
                               MaxSimSelected(doc_embs, idx, selected))
         IN IF score > best_score
            THEN ScanBest(q_emb, doc_embs, candidates, selected, k + 1, idx, score)
            ELSE ScanBest(q_emb, doc_embs, candidates, selected, k + 1, best_idx, best_score)

RemoveNothing(candidates, idx) == candidates

\* line 47: candidates.remove(best_idx)
Remove(candidates, idx) == SelectSeq(candidates, LAMBDA c : c # idx)

\* lines 38-48: the selection loop
RECURSIVE MmrLoop(_, _, _, _, _)
MmrLoop(q_emb, doc_embs, candidates, selected, top_k) ==
    IF candidates # <<>> /\ Len(selected) < Min(top_k, Len(doc_embs))
    THEN LET best_idx == ScanBest(q_emb, doc_embs, candidates, selected, 1, 0, BestScoreInit)
         IN MmrLoop(q_emb, doc_embs, Remove(candidates, best_idx),
                    Append(selected, best_idx), top_k)
    ELSE selected

\* line 49: the selected documents with their metadata
Picked(docs, selected) ==
    [p \in 1..Len(selected) |->
       [text |-> docs[selected[p]].doc, id |-> docs[selected[p]].id,
        item_id |-> docs[selected[p]].item_id,
        start_s |-> docs[selected[p]].start_s, end_s |-> docs[selected[p]].end_s]]

\* lines 31-49; docs are the pre-fetched entries (document and metadata)
_mmr_rerank(query_emb, docs, top_k) ==
    IF docs = <<>> THEN <<>>
    ELSE Picked(docs, MmrLoop(query_emb, [i \in 1..Len(docs) |-> Embedding(docs[i].doc)],
                              [i \in 1..Len(docs) |-> i], <<>>, top_k))

\* The orders in which the collection may hand back its entries.
RECURSIVE Orders(_)
Orders(ix) ==
    IF ix = {} THEN {<<>>}
    ELSE UNION { {<<e>> \o o : o \in Orders(ix \ {e})} : e \in ix }

\* lines 52-74: order is the collection's ranking of its entries for this
\* query; fail_at = 1 makes the embedding of the query raise, fail_at = 2
\* that of the pre-fetched documents.
vs_query(order, query_text, top_k, allowed_item_ids, fail_at) ==
    LET matching == IF allowed_item_ids # <<>>
                    THEN SelectSeq(order, LAMBDA e : e.item_id \in SeqToSet(allowed_item_ids))
                    ELSE order
        pre_k == Max(top_k * 3, 30)
        docs == SubSeq(matching, 1, Min(pre_k, Len(matching)))
    IN IF fail_at = 1 THEN [raised |-> TRUE, docs |-> <<>>, out |-> <<>>]
       ELSE IF fail_at = 2 /\ docs # <<>> THEN [raised |-> TRUE, docs |-> docs, out |-> <<>>]
       ELSE [raised |-> FALSE, docs |-> docs,
             out |-> _mmr_rerank(Embedding(query_text), docs, top_k)]

IndexTexts == {<<"a">>, <<"b">>, <<"c">>}
QueryTexts == {<<"q">>, <<"a">>, <<"z">>}
TopKs == {0, 1, 2, 12}
AllowLists == {<<>>, <<1>>, <<1, 2>>}

NoCall ==
    [status |-> "idle", text |-> <<>>, top_k |-> 0, allowed |-> <<>>,
     docs |-> <<>>, out |-> <<>>]

RetrieveInit == rt = NoCall

\* vector_store.add_chunks: one more item's chunk is added to the collection
VsAddChunks ==
    \E t \in IndexTexts :
        /\ rt.status = "idle"
        /\ next_id <= MaxItems
        /\ vindex' = add_chunks(vindex, next_id, <<t>>, NoMetas(1))
        /\ next_id' = next_id + 1
        /\ UNCHANGED <<db, captions, rt, chat, cc>>
        /\ UNCHANGED <<ck_vars, mg_vars, yt_vars>>

\* vector_store.query is called
VsQuery ==
    \E t \in QueryTexts, k \in TopKs, allowed \in AllowLists,
       order \in Orders(vindex), fail_at \in 0..2 :
        /\ rt.status = "idle"
        /\ LET r == vs_query(order, t, k, allowed, fail_at)
           IN rt' = [status |-> IF r.raised THEN "raised" ELSE "returned",
                     text |-> t, top_k |-> k, allowed |-> allowed,
                     docs |-> r.docs, out |-> r.out]
        /\ UNCHANGED <<st_vars, chat, cc>>
        /\ UNCHANGED <<ck_vars, mg_vars, yt_vars>>

\* The caller has taken the result, or the exception, of the call.
VsQueryDone ==
    /\ rt.status # "idle"
    /\ rt' = NoCall
    /\ UNCHANGED <<st_vars, chat, cc>>
    /\ UNCHANGED <<ck_vars, mg_vars, yt_vars>>

RetrieveNext ==
    \/ VsAddChunks
    \/ VsQuery
    \/ VsQueryDone

(***************************************************************************)
(* Chat context assembly (app/main.py api_chat, lines 135-239).  A context *)
(* is a record with a text; item_id is present where the code sets it.     *)
(***************************************************************************)
ChatBoards == {"b1"}
NoBoard == "None"
GroupNames == {<<"a">>, <<"B", "c">>}
Templates == {<<>>, <<"t">>}
ChatQueries == {<<"q">>, <<"b", " ", "c">>, <<"a", " ", "B", "c">>}
ChatItemIds == {<<>>, <<1>>, <<1, 2>>, <<2, 3>>}
ChatTopKs == {0, 20}

\* The text a chat completion returns for a summary request.
SummaryText == <<"s">>

\* str.lower().replace(" ", "")
Canon(s) ==
    LET kept == SelectSeq(s, LAMBDA c : c # " ")
    IN [i \in 1..Len(kept) |->
          CASE kept[i] = "A" -> "a" [] kept[i] = "B" -> "b" [] kept[i] = "C" -> "c"
            [] OTHER -> kept[i]]

\* "sub in s" for strings
Contains(sub, s) ==
    \E i \in 0..(Len(s) - Len(sub)) : SubSeq(s, i + 1, i + Len(sub)) = sub

RECURSIVE JoinWith(_, _)
JoinWith(parts, sep) ==
    IF parts = <<>> THEN <<>>
    ELSE IF Len(parts) = 1 THEN parts[1]
    ELSE parts[1] \o sep \o JoinWith(Tail(parts), sep)

\* f"Group {g.name} description: {g.template}"
Description(g) ==
    <<"G", "r", "o", "u", "p", " ">> \o g.name
    \o <<" ", "d", "e", "s", "c", "r", "i", "p", "t", "i", "o", "n", ":", " ">>
    \o g.template

\* f"=== GROUP {g.name} ===\n"
GroupHeader(name) ==
    <<"=", "=", "=", " ", "G", "R", "O", "U", "P", " ">> \o name
    \o <<" ", "=", "=", "=", "\n">>

\* lines 164-169: the ids of the board's items whose group has this
\* canonical name
NameToIds(items, canon) ==
    LET members == SelectSeq(items, LAMBDA it : it.group # <<>> /\ Canon(it.group) = canon)
    IN [i \in 1..Len(members) |-> members[i].id]

\* lines 171-176
Mentioned(groups, query) ==
    SelectSeq(groups, LAMBDA g : Canon(g.name) # <<>> /\ Contains(Canon(g.name), Canon(query)))

\* line 180
KEach(top_k, n) == Max(4, IF top_k \div n # 0 THEN top_k \div n ELSE 4)

\* No retrieval was run.
NoRetrieval == [raised |-> FALSE, docs |-> <<>>, out |-> <<>>]

\* lines 186-189: the retrieval restricted to the members of a group
GroupQuery(order, query, ids, k_each, gfail) ==
    IF ids # <<>> THEN vs_query(order, query, k_each, ids, IF gfail THEN 1 ELSE 0)
    ELSE NoRetrieval

\* lines 183-207, one pass of the loop over the mentioned groups; r is the
\* outcome of GroupQuery.  Line 215 imports list_chunks_by_item inside
\* api_chat, which makes the name local to the whole function: the calls of
\* lines 193 and 201 come before the import has run and raise
\* UnboundLocalError; the inner try of lines 199-205 passes over the second.
GroupPass(g, ids, k_each, r) ==
    LET texts == (IF Strip(g.template) # <<>> THEN <<Description(g)>> ELSE <<>>)
                 \o [i \in 1..Len(r.out) |-> r.out[i].text]
    IN [error |-> IF r.raised THEN "EmbeddingError"
                  ELSE IF r.out = <<>> /\ ids # <<>> THEN "UnboundLocalError"
                  ELSE "None",
        block |-> IF texts # <<>>
                  THEN <<[text |-> GroupHeader(g.name) \o JoinWith(texts, <<"\n", "\n">>)]>>
                  ELSE <<>>,
        calls |-> IF ids # <<>>
                  THEN <<[scope |-> "group", group |-> g.name, allowed |-> ids, top_k |-> k_each,
                          raised |-> r.raised, out |-> r.out]>>
                  ELSE <<>>]

\* The stage after one more pass p: an exception ends the loop with
\* nothing aggregated.
AfterPass(acc, p) ==
    IF acc.error # "None" THEN acc
    ELSE IF p.error # "None"
    THEN [error |-> p.error, blocks |-> <<>>, calls |-> acc.calls \o p.calls]
    ELSE [error |-> "None", blocks |-> acc.blocks \o p.block, calls |-> acc.calls \o p.calls]

\* lines 182-208: the loop over the mentioned groups
RECURSIVE GroupLoop(_, _, _, _, _, _, _, _)
GroupLoop(order, query, items, mentioned, i, top_k, gfail, acc) ==
    IF i > Len(mentioned) \/ acc.error # "None" THEN acc
    ELSE GroupLoop(order, query, items, mentioned, i + 1, top_k, gfail,
                   AfterPass(acc,
                             GroupPass(mentioned[i],
                                       NameToIds(items, Canon(mentioned[i].name)),
                                       KEach(top_k, Len(mentioned)),
                                       GroupQuery(order, query,
                                                  NameToIds(items, Canon(mentioned[i].name)),
                                                  KEach(top_k, Len(mentioned)), gfail))))

\* lines 159-210: the group-scoped stage; "except Exception: pass" absorbs
\* whatever it raised
GroupStage(d, order, q, gfail) ==
    IF q.board_id = NoBoard
    THEN [error |-> "None", blocks |-> <<>>, calls |-> <<>>]
    ELSE GroupLoop(order, q.query, list_items(d, q.board_id),
                   Mentioned(list_groups(d, q.board_id), q.query), 1, q.top_k, gfail,
                   [error |-> "None", blocks |-> <<>>, calls |-> <<>>])

UseScopedNever(scoped_contexts) == FALSE

\* line 212: "scoped_contexts if scoped_contexts else vs_query(...)"
UseScoped(scoped_contexts) == scoped_contexts # <<>>

\* lines 213-228: one generated summary per allowed item that has chunks
Summaries(d, allowed) ==
    LET with_chunks == SelectSeq(allowed, LAMBDA iid : ChunksOf(d, iid) # <<>>)
    IN [i \in 1..Len(with_chunks) |-> [text |-> SummaryText, item_id |-> with_chunks[i]]]

\* lines 229-237
GroupDescriptions(d, board_id) ==
    IF board_id = NoBoard THEN <<>>
    ELSE LET described == SelectSeq(list_groups(d, board_id),
                                    LAMBDA g : Strip(g.template) # <<>>)
         IN [i \in 1..Len(described) |-> [text |-> Description(described[i])]]

\* The request that has not been made.
NoChat == [status |-> "idle"]

\* What api_chat ends with: the exception it raises (error), or the
\* contexts it returns; with it, what the handler did on the way: the
\* exception the group-scoped stage absorbed, the blocks it aggregated, and
\* the retrieval calls made.
Outcome(q, error, path, stage, made, contexts) ==
    [status |-> IF error = "None" THEN "returned" ELSE "raised",
     error |-> error, path |-> path, request |-> q,
     absorbed |-> stage.error, scoped_contexts |-> stage.blocks,
     calls |-> made, contexts |-> contexts]

\* lines 212-239; stage is the outcome of the group-scoped stage and u of
\* the unscoped retrieval of line 212, if it was run
Assemble(d, q, stage, u, llm_ok) ==
    LET scoped == UseScoped(stage.blocks)
        made == stage.calls \o
                (IF scoped THEN <<>>
                 ELSE <<[scope |-> "unscoped", group |-> <<>>, allowed |-> q.item_ids,
                         top_k |-> q.top_k,
                         raised |-> u.raised, out |-> u.out]>>)
        retrieved == IF scoped THEN stage.blocks ELSE u.out
        summaries == IF retrieved = <<>> /\ q.item_ids # <<>>
                     THEN Summaries(d, q.item_ids) ELSE <<>>
        path == IF scoped THEN "scoped" ELSE IF summaries # <<>> THEN "summaries"
                ELSE "unscoped"
    IN IF u.raised THEN Outcome(q, "EmbeddingError", "unscoped", stage, made, <<>>)
       ELSE IF ~llm_ok THEN Outcome(q, "ChatError", path, stage, made, <<>>)
       ELSE Outcome(q, "None", path, stage, made,
                    (IF summaries # <<>> THEN summaries ELSE retrieved)
                    \o GroupDescriptions(d, q.board_id))

\* line 212
Unscoped(d, order, q, stage, ufail, llm_ok) ==
    Assemble(d, q, stage,
             IF UseScoped(stage.blocks) THEN NoRetrieval
             ELSE vs_query(order, q.query, q.top_k, q.item_ids, IF ufail THEN 1 ELSE 0),
             llm_ok)

\* api_chat.  gfail and ufail say whether the embedding service raises in
\* the group-scoped stage and in the unscoped retrieval; llm_ok whether the
\* chat completions succeed.  The single-item shortcut calls
\* list_chunks_by_item at line 139, before the import of line 215.
api_chat(d, order, q, gfail, ufail, llm_ok) ==
    IF Len(q.item_ids) = 1
    THEN Outcome(q, "UnboundLocalError", "shortcut",
                 [error |-> "None", blocks |-> <<>>], <<>>, <<>>)
    ELSE Unscoped(d, order, q, GroupStage(d, order, q, gfail), ufail, llm_ok)

\* A document is ingested on the board.
ChatIngestDocument ==
    /\ chat = NoChat
    /\ IngestDocumentOn(ChatBoards, MaxChatItems)

\* POST /items/group
ApiGroupItems ==
    \E i \in 1..MaxChatItems, g \in GroupNames :
        /\ chat = NoChat
        /\ i \in ItemIds(db)
        /\ db' = update_items_group(db, <<i>>, g)
        /\ UNCHANGED <<captions, vindex, next_id, rt, chat, cc>>
        /\ UNCHANGED <<ck_vars, mg_vars, yt_vars>>

\* POST /groups
ApiUpsertGroup ==
    \E b \in ChatBoards, name \in GroupNames, template \in Templates :
        /\ chat = NoChat
        /\ db' = upsert_group(db, b, name, template)
        /\ UNCHANGED <<captions, vindex, next_id, rt, chat, cc>>
        /\ UNCHANGED <<ck_vars, mg_vars, yt_vars>>

\* POST /chat
ApiChat ==
    \E b \in ChatBoards \cup {NoBoard}, item_ids \in ChatItemIds, query \in ChatQueries,
       top_k \in ChatTopKs, order \in Orders(vindex), gfail, ufail, llm_ok \in BOOLEAN :
        /\ chat = NoChat
        /\ chat' = api_chat(db, order,
                            [board_id |-> b, item_ids |-> item_ids, query |-> query,
                             top_k |-> top_k],
                            gfail, ufail, llm_ok)
        /\ UNCHANGED <<st_vars, rt, cc>>
        /\ UNCHANGED <<ck_vars, mg_vars, yt_vars>>

\* The response, or the error, has been sent.
ApiChatDone ==
    /\ chat # NoChat
    /\ chat' = NoChat
    /\ UNCHANGED <<st_vars, rt, cc>>
    /\ UNCHANGED <<ck_vars, mg_vars, yt_vars>>

ChatNext ==
    \/ ChatIngestDocument
    \/ ApiGroupItems
    \/ ApiUpsertGroup
    \/ ApiChat
    \/ ApiChatDone

(***************************************************************************)
(* ingest_youtube (app/ingest.py lines 203-317).  Every external           *)
(* capability answers with one of the replies listed below; calls logs     *)
(* each invocation, with got = TRUE when the reply carried non-empty text. *)
(***************************************************************************)
\* Entries of a fetched transcript: text (None and "" read alike), start
\* and duration; bad marks an entry whose start or duration float() rejects.
TranscriptEntries ==
    { [text |-> <<"h", "i">>, start |-> 0, duration |-> 20, bad |-> FALSE],
      [text |-> <<" ", "x">>, start |-> 21, duration |-> 19, bad |-> FALSE],
      [text |-> <<" ">>, start |-> 21, duration |-> 19, bad |-> FALSE],
      [text |-> <<"x">>, start |-> 0, duration |-> 0, bad |-> TRUE] }

EntrySeqs == UNION { [1..n -> TranscriptEntries] : n \in 0..MaxEntries }

\* Replies of the transcript provider: list_transcripts, find_transcript or
\* fetch raises; tracks is falsy; or fetch returns entries.
TranscriptReplies ==
    { [kind |-> k, entries |-> <<>>] :
        k \in {"NoTranscriptFound", "TranscriptsDisabled", "OtherError", "no_tracks"} }
    \cup { [kind |-> "entries", entries |-> es] : es \in EntrySeqs }

\* ingest.py lines 216-222: the loop over entries; it stops at the first
\* entry float() rejects, with the segments appended so far.
RECURSIVE EntryLoop(_, _, _)
EntryLoop(entries, i, segs) ==
    IF i > Len(entries) THEN [raised |-> FALSE, segments |-> segs]
    ELSE LET e == entries[i]
             t == Strip(e.text)
         IN IF t = <<>> THEN EntryLoop(entries, i + 1, segs)
            ELSE IF e.bad THEN [raised |-> TRUE, segments |-> segs]
            ELSE EntryLoop(entries, i + 1,
                           Append(segs, Seg(e.start, e.start + e.duration, t)))

SegTextsOf(segs) == [i \in 1..Len(segs) |-> segs[i].text]

\* ingest.py lines 211-223: the body of the try block, up to where it ends
TranscriptTry(reply) ==
    IF reply.kind = "no_tracks" THEN [raised |-> FALSE, segments |-> <<>>, text |-> <<>>]
    ELSE IF reply.kind # "entries" THEN [raised |-> TRUE, segments |-> <<>>, text |-> <<>>]
    ELSE LET r == EntryLoop(reply.entries, 1, <<>>)
         IN IF r.raised THEN [raised |-> TRUE, segments |-> r.segments, text |-> <<>>]
            ELSE [raised |-> FALSE, segments |-> r.segments,
                  text |-> JoinSp(SegTextsOf(r.segments))]

TranscriptExceptKeep(r) == [segments |-> r.segments, text |-> r.text]

\* ingest.py lines 224-226: the except clause resets text and segments
TranscriptExcept(r) ==
    IF r.raised THEN [segments |-> <<>>, text |-> <<>>]
    ELSE [segments |-> r.segments, text |-> r.text]

\* Segment lists a parsed subtitle file or a speech-to-text reply can hold:
\* every text is non-empty after strip (lines 104, 125, 270, 287).
CueSegs == {Seg(0, 20, <<"h", "i">>), Seg(21, 40, <<"x">>)}

SegLists == UNION { [1..n -> CueSegs] : n \in 0..MaxEntries }

\* _ytdlp_autosubs_segments (lines 181-200): the downloader or the parser
\* raises, no .vtt file is found, or the first .vtt file is parsed.
SubtitleReplies ==
    { [kind |-> k, segments |-> <<>>] : k \in {"DownloadError", "ParseError", "no_file"} }
    \cup { [kind |-> "parsed", segments |-> sl] : sl \in SegLists }

_ytdlp_autosubs_raising(reply) ==
    [raised |-> reply.kind \in {"DownloadError", "ParseError"},
     segments |-> IF reply.kind = "parsed" THEN reply.segments ELSE <<>>]

\* The try/except of lines 191-200 turns every exception into [].
_ytdlp_autosubs_segments(reply) ==
    [raised |-> FALSE,
     segments |-> IF reply.kind = "parsed" THEN reply.segments ELSE <<>>]

\* ingest.py lines 229 and 234: "if not text.strip()"
NoUsableTextAlways(t) == TRUE

NoUsableText(t) == Strip(t) = <<>>

\* Replies of client.audio.transcriptions.create: an exception, or a reply
\* with a text and segments; segs = "bad" is a segment list whose
\* conversion (s.get, float) raises.
SttTexts == {<<>>, <<" ">>, <<"h", "i">>}
SttSegKinds == {"none", "good", "bad"}
SttReplies ==
    { [kind |-> "APIError", text |-> <<>>, segs |-> "none"] }
    \cup { [kind |-> "reply", text |-> t, segs |-> k] : t \in SttTexts, k \in SttSegKinds }

SttGoodSegs == <<Seg(0, 20, <<"h", "i">>), Seg(21, 40, <<"x">>)>>

GotText(reply) == reply.kind = "reply" /\ Strip(reply.text) # <<>>

Call(cap, got) == [cap |-> cap, got |-> got, err |-> "None"]

\* A speech-to-text submission and the exception it ended with, if any: the
\* request itself raises, or the conversion of the reply's segments does.
Submission(cap, reply) ==
    [cap |-> cap, got |-> GotText(reply),
     err |-> IF reply.kind # "reply" THEN reply.kind
             ELSE IF reply.segs = "bad" THEN "TypeError" ELSE "None"]

Store == [db |-> db, captions |-> captions, vindex |-> vindex]

\* The board of a video request: ingest_youtube copies board_id into the
\* item (line 297) and never reads it.
YtBoards == {"b1"}

YtInit ==
    /\ pc = "idle"
    /\ req = [board_id |-> "b1"]
    /\ text = <<>>
    /\ segments = <<>>
    /\ calls = <<>>
    /\ last_err = "None"
    /\ attempt = 0
    /\ outfile = FALSE
    /\ result = "None"
    /\ pre = [db |-> _default_db, captions |-> <<>>, vindex |-> {}]
    /\ runs = 0

\* lines 203-210: a request arrives; _extract_youtube_id finds a video id
\* in the url or the handler raises ValueError.
YtCall ==
    \E b \in YtBoards, url_ok \in BOOLEAN :
        /\ pc \in {"idle", "done", "raised", "invalid", "embed_failed"}
        /\ runs < MaxRuns
        /\ runs' = runs + 1
        /\ req' = [board_id |-> b]
        /\ text' = <<>>
        /\ segments' = <<>>
        /\ calls' = <<>>
        /\ last_err' = "None"
        /\ attempt' = 0
        /\ outfile' = FALSE
        /\ pre' = Store
        /\ IF url_ok THEN pc' = "tier1" /\ result' = "None"
                     ELSE pc' = "invalid" /\ result' = "ValueError"
        /\ UNCHANGED st_vars
        /\ UNCHANGED <<ck_vars, mg_vars, ex_vars>>

\* lines 208-226: official transcript lookup
YtTranscript ==
    \E reply \in TranscriptReplies :
        /\ pc = "tier1"
        /\ calls' = Append(calls, Call("transcript", TranscriptTry(reply).text # <<>>))
        /\ LET r == TranscriptExcept(TranscriptTry(reply))
           IN /\ text' = r.text
              /\ segments' = r.segments
              /\ pc' = IF NoUsableText(r.text) THEN "tier2" ELSE "persist"
        /\ UNCHANGED <<req, last_err, attempt, outfile, result, pre, runs, st_vars>>
        /\ UNCHANGED <<ck_vars, mg_vars, ex_vars>>

\* lines 228-231: auto-subtitle download
YtSubtitles ==
    \E reply \in SubtitleReplies :
        /\ pc = "tier2"
        /\ LET r == _ytdlp_autosubs_segments(reply)
               segs == r.segments
               t == JoinSp(SegTextsOf(segs))
           IN /\ calls' = Append(calls, Call("subtitles", t # <<>>))
              /\ segments' = segs
              /\ text' = t
              /\ IF r.raised
                 THEN pc' = "raised" /\ result' = reply.kind
                 ELSE /\ pc' = IF NoUsableText(t) THEN "tier3" ELSE "persist"
                      /\ result' = result
        /\ UNCHANGED <<req, last_err, attempt, outfile, pre, runs, st_vars>>
        /\ UNCHANGED <<ck_vars, mg_vars, ex_vars>>

\* line 235: ensure_client() raises when OPENAI_API_KEY is not set
YtEnsureClient ==
    \E key_set \in BOOLEAN :
        /\ pc = "tier3"
        /\ IF key_set THEN pc' = "audio" /\ result' = result
                      ELSE pc' = "raised" /\ result' = "NoApiKey"
        /\ UNCHANGED <<req, text, segments, calls, last_err, attempt, outfile, pre, runs, st_vars>>
        /\ UNCHANGED <<ck_vars, mg_vars, ex_vars>>

\* lines 236-263: audio download and extraction; extract_info is outside
\* any try, and a run that leaves no .m4a file raises RuntimeError.
YtAudio ==
    \E reply \in {"DownloadError", "no_file", "m4a"} :
        /\ pc = "audio"
        /\ calls' = Append(calls, Call("audio", FALSE))
        /\ outfile' = (reply = "m4a")
        /\ IF reply = "m4a" THEN pc' = "stt_primary" /\ result' = result
           ELSE /\ pc' = "raised"
                /\ result' = IF reply = "no_file" THEN "NoAudioFile" ELSE "DownloadError"
        /\ last_err' = "None"
        /\ attempt' = 0
        /\ UNCHANGED <<req, text, segments, pre, runs, st_vars>>
        /\ UNCHANGED <<ck_vars, mg_vars, ex_vars>>

\* lines 275 and 291: "if not text"
StillNoTextNever(t) == FALSE

StillNoText(t) == t = <<>>

\* lines 265-274: one pass of the primary loop's try block.  text is
\* assigned before the segments are converted, so a conversion that raises
\* leaves text set and skips the break.
SttPrimaryTry(reply, segs0, text0, err0) ==
    IF reply.kind # "reply"
    THEN [text |-> text0, segments |-> segs0, last_err |-> reply.kind, break |-> FALSE]
    ELSE IF reply.segs = "bad"
    THEN [text |-> Strip(reply.text), segments |-> segs0, last_err |-> "TypeError",
          break |-> FALSE]
    ELSE [text |-> Strip(reply.text),
          segments |-> IF reply.segs = "good" THEN SttGoodSegs ELSE <<>>,
          last_err |-> err0,
          break |-> Strip(reply.text) # <<>>]

\* lines 264-275: one submission to the primary model, whisper-1
YtSttPrimary ==
    \E reply \in SttReplies :
        /\ pc = "stt_primary"
        /\ attempt < 2
        /\ calls' = Append(calls, Submission("stt_primary", reply))
        /\ LET r == SttPrimaryTry(reply, segments, text, last_err)
           IN /\ text' = r.text
              /\ segments' = r.segments
              /\ last_err' = r.last_err
              /\ attempt' = attempt + 1
              /\ pc' = IF ~r.break /\ attempt + 1 < 2 THEN "stt_primary"
                       ELSE IF StillNoText(r.text) THEN "stt_fallback"
                       ELSE "persist"
        /\ UNCHANGED <<req, outfile, result, pre, runs, st_vars>>
        /\ UNCHANGED <<ck_vars, mg_vars, ex_vars>>

\* lines 277-289: the try block of the fallback submission; every exception
\* is passed over.
SttFallbackTry(reply, segs0, text0) ==
    IF reply.kind # "reply" THEN [text |-> text0, segments |-> segs0]
    ELSE [text |-> Strip(reply.text),
          segments |-> IF reply.segs = "good" THEN SttGoodSegs ELSE segs0]

\* lines 275-294: the submission to gpt-4o-mini-transcribe and the final
\* check, which raises last_err or the generic RuntimeError.
YtSttFallback ==
    \E reply \in SttReplies :
        /\ pc = "stt_fallback"
        /\ calls' = Append(calls, Submission("stt_fallback", reply))
        /\ LET r == SttFallbackTry(reply, segments, text)
           IN /\ text' = r.text
              /\ segments' = r.segments
              /\ IF StillNoText(r.text)
                 THEN /\ pc' = "raised"
                      /\ result' = IF last_err # "None" THEN last_err
                                   ELSE "TranscriptionFailed"
                 ELSE pc' = "persist" /\ result' = result
        /\ UNCHANGED <<req, last_err, attempt, outfile, pre, runs, next_id, db, captions, vindex>>
        /\ UNCHANGED <<ck_vars, mg_vars, ex_vars>>

\* lines 296-317: add_item, then the segments or the plain text are
\* chunked, embedded (embed_texts may raise) and saved.
YtPersist ==
    \E embed_ok \in BOOLEAN :
        /\ pc = "persist"
        /\ LET d == add_item(db, Item(next_id, req.board_id, "youtube"))
               r == IF segments # <<>>
                    THEN PersistSegments(d, captions, vindex, next_id, segments, embed_ok)
                    ELSE PersistText(d, captions, vindex, next_id, text, embed_ok)
           IN /\ db' = r.db
              /\ captions' = r.captions
              /\ vindex' = r.vindex
              /\ IF r.raised THEN pc' = "embed_failed" /\ result' = "EmbeddingError"
                 ELSE pc' = "done" /\ result' = "ok"
        /\ next_id' = next_id + 1
        /\ UNCHANGED <<req, text, segments, calls, last_err, attempt, outfile, pre, runs>>
        /\ UNCHANGED <<ck_vars, mg_vars, ex_vars>>

YtNext ==
    \/ YtCall
    \/ YtTranscript
    \/ YtSubtitles
    \/ YtEnsureClient
    \/ YtAudio
    \/ YtSttPrimary
    \/ YtSttFallback
    \/ YtPersist

(***************************************************************************)
(* Specifications: one per component, the other components at rest.        *)
(***************************************************************************)
Init ==
    /\ ChunkInit /\ MergeInit /\ StoreInit /\ YtInit
    /\ RetrieveInit
    /\ chat = NoChat
    /\ ConcInit

SpecChunk == Init /\ [][ChunkNext]_vars
SpecMerge == Init /\ [][MergeNext]_vars
SpecStore == Init /\ [][StoreNext]_vars
SpecConc == Init /\ [][ConcNext]_vars
SpecIngest == Init /\ [][YtNext]_vars
SpecRetrieve == Init /\ [][RetrieveNext]_vars

\* Ingestion, deletion and retrieval on the same store and collection
DeleteNext ==
    \/ IngestTextDocument
    \/ ApiDeleteItem
    \/ ApiDeleteBoard
    \/ VsQuery
    \/ VsQueryDone

SpecDelete == Init /\ [][DeleteNext]_vars
SpecChat == Init /\ [][ChatNext]_vars

Next == ChunkNext \/ MergeNext \/ StoreNext \/ YtNext \/ RetrieveNext \/ ChatNext
Spec == Init /\ [][Next]_vars

(***************************************************************************)
(* Properties of the acquisition cascade, checked under SpecIngest.        *)
(***************************************************************************)
Last(q) == q[Len(q)]

TierOf(cap) == IF cap = "transcript" THEN 1 ELSE IF cap = "subtitles" THEN 2 ELSE 3

Count(cap) == Cardinality({j \in 1..Len(calls) : calls[j].cap = cap})

\* C1: the tiers run in the order transcript, subtitles, speech-to-text; a
\* capability of tier k is invoked only after every earlier tier was
\* invoked, none of them yielded non-empty text, and the text in hand is
\* blank when the cascade moves to a later tier.
C1_TierOrder ==
    [][(calls' # calls /\ calls' # <<>>) =>
         LET c == Last(calls')
             k == TierOf(c.cap)
         IN /\ calls' = Append(calls, c)
            /\ \A j \in 1..Len(calls) : TierOf(calls[j].cap) <= k
            /\ \A t \in 1..(k - 1) : \E j \in 1..Len(calls) : TierOf(calls[j].cap) = t
            /\ \A j \in 1..Len(calls) : TierOf(calls[j].cap) < k => ~calls[j].got
            /\ (calls = <<>> \/ TierOf(Last(calls).cap) < k) => Strip(text) = <<>>]_vars

\* The transcript provider failed, the subtitle file yielded text, and the
\* request completed without any call of the speech-to-text tier.
C1_Witness ==
    /\ pc = "done"
    /\ Len(calls) = 2
    /\ calls[1].cap = "transcript" /\ ~calls[1].got
    /\ calls[2].cap = "subtitles" /\ calls[2].got

\* C2: a transcript or subtitle tier that yields no usable text never
\* raises; the cascade moves to the next tier with text and segments empty.
C2_SoftFailure ==
    [][(pc \in {"tier1", "tier2"} /\ calls' # calls /\ ~Last(calls').got) =>
         /\ pc' = (IF pc = "tier1" THEN "tier2" ELSE "tier3")
         /\ text' = <<>>
         /\ segments' = <<>>
         /\ result' = result]_vars

\* Both the transcript and the subtitle tier have failed.
C2_Witness ==
    /\ pc = "tier3"
    /\ Len(calls) = 2
    /\ ~calls[1].got /\ ~calls[2].got

\* C3 as claimed: acquisition raises only after the primary and the
\* fallback model were both submitted to and left no text.
C3_OnlyExhaustionRaises ==
    pc = "raised" =>
        /\ Count("stt_primary") >= 1
        /\ Count("stt_fallback") = 1
        /\ text = <<>>

\* C3 as amended: acquisition raises only in the speech-to-text tier, after
\* the transcript and subtitle tiers both yielded no text: at client
\* initialisation, at the audio download (the downloader raises or leaves
\* no audio file), or after two primary submissions and one fallback
\* submission that leave the text empty.
C3_RaisesOnlyInTier3 ==
    pc = "raised" =>
        /\ text = <<>>
        /\ Len(calls) >= 2
        /\ calls[1].cap = "transcript" /\ ~calls[1].got
        /\ calls[2].cap = "subtitles" /\ ~calls[2].got
        /\ \/ result = "NoApiKey" /\ Len(calls) = 2
           \/ /\ result \in {"DownloadError", "NoAudioFile"}
              /\ Len(calls) = 3
              /\ calls[3].cap = "audio"
           \/ /\ result \in {"APIError", "TypeError", "TranscriptionFailed"}
              /\ Count("audio") = 1
              /\ Count("stt_primary") = 2
              /\ Count("stt_fallback") = 1
              /\ Last(calls).cap = "stt_fallback"

\* The audio step left no audio file and the request raised.
C3_Witness == pc = "raised" /\ result = "NoAudioFile"

\* C4: at most two primary submissions, none after a primary submission
\* that returned non-empty text; at most one fallback submission, made only
\* if no primary submission returned text; every other capability is
\* invoked at most once.
C4_SubmissionCounts ==
    /\ Count("stt_primary") <= 2
    /\ Count("stt_fallback") <= 1
    /\ Count("transcript") <= 1
    /\ Count("subtitles") <= 1
    /\ Count("audio") <= 1
    /\ \A j, k \in 1..Len(calls) :
         (j < k /\ calls[j].cap = "stt_primary" /\ calls[j].got)
            => calls[k].cap \notin {"stt_primary", "stt_fallback"}

\* C5: the store, the captions and the index change only in the
\* persistence step, which runs with non-blank text; when the request
\* raises from the cascade they are as they were when it arrived.
C5_PersistAfterSuccess ==
    [][/\ (Store' # Store) => (pc = "persist" /\ Strip(text) # <<>>)
       /\ (pc' \in {"raised", "invalid"}) => (Store' = pre')]_vars

\* A second request raised from the cascade over a store that the first
\* request had filled.
C5_Witness ==
    /\ pc = "raised"
    /\ runs = 2
    /\ db.items # <<>>
    /\ db.chunks # <<>>

\* The exceptions raised by the speech-to-text submissions, in order.
SttErrors ==
    SelectSeq([j \in 1..Len(calls) |-> calls[j].err], LAMBDA e : e # "None")

\* C18: when the speech-to-text tier ends without text, the error raised is
\* the last one any of its submissions raised, the fallback submission
\* included; the generic failure is raised only when none of them raised.
C18_LastErrorRaised ==
    (pc = "raised" /\ Count("stt_fallback") = 1) =>
        result = IF SttErrors = <<>> THEN "TranscriptionFailed" ELSE Last(SttErrors)

(***************************************************************************)
(* Properties of the store, checked under SpecStore.                       *)
(***************************************************************************)
\* C6: no operation removes or changes a chunk whose owning item is in the
\* store before and after it.
C6_ChunksKept ==
    [][\A i \in ItemIds(db) \cap ItemIds(db') : ChunksOf(db', i) = ChunksOf(db, i)]_vars

(***************************************************************************)
(* Properties of chunk_text, checked under SpecChunk.                      *)
(***************************************************************************)
\* C7: every pass of the loop that is followed by another pass moves the
\* window start strictly forward, whatever max_chars and overlap are.
C7_StartIncreases ==
    [][(ck_pc = "loop" /\ ck_pc' = "loop") => ck_start' > ck_start]_vars

Drop(s, k) == SubSeq(s, k + 1, Len(s))

RECURSIVE Reconstruct(_, _, _)
Reconstruct(chunks, i, overlap) ==
    IF i > Len(chunks) THEN <<>>
    ELSE (IF i = 1 THEN chunks[1] ELSE Drop(chunks[i], overlap))
         \o Reconstruct(chunks, i + 1, overlap)

AllButLastFull ==
    \A i \in 1..(Len(ck_chunks) - 1) : Len(ck_chunks[i]) = ck_max

\* C8 as claimed: for non-empty input and max_chars > overlap >= 0 the
\* chunks, overlaps removed, give back the input text, and every chunk but
\* the last is max_chars long.
C8_ReconstructsInput ==
    (ck_pc = "done" /\ ck_raw # <<>> /\ ck_max > ck_ovl) =>
        /\ Reconstruct(ck_chunks, 1, ck_ovl) = ck_raw
        /\ AllButLastFull

\* C8 as amended: the chunks, overlaps removed, give back the input text
\* with leading and trailing whitespace stripped, and every chunk but the
\* last is max_chars long.
C8_ReconstructsStripped ==
    (ck_pc = "done" /\ ck_raw # <<>> /\ ck_max > ck_ovl) =>
        /\ Reconstruct(ck_chunks, 1, ck_ovl) = Strip(ck_raw)
        /\ AllButLastFull

\* A padded text was cut into three or more overlapping windows.
C8_Witness ==
    /\ ck_pc = "done"
    /\ ck_max > ck_ovl /\ ck_ovl > 0
    /\ Len(ck_chunks) >= 3
    /\ Strip(ck_raw) # ck_raw

\* C9 as claimed: 2500 characters with max_chars = 1200 and overlap = 150
\* give three chunks of 1200, 1200 and 250 characters, starting at 0, 1050
\* and 2100.
C9_Example ==
    (ck_pc = "done" /\ Len(ck_raw) = 2500 /\ ck_max = 1200 /\ ck_ovl = 150) =>
        /\ Len(ck_chunks) = 3
        /\ <<Len(ck_chunks[1]), Len(ck_chunks[2]), Len(ck_chunks[3])>> = <<1200, 1200, 250>>
        /\ ck_starts = <<0, 1050, 2100>>
        /\ \A i \in 1..3 : ck_starts[i] = (i - 1) * (ck_max - ck_ovl)

\* C9 as amended: the three chunks are 1200, 1200 and 400 characters long
\* (the last window runs from 2100 to the end of the text); the starts are
\* 0, 1050 and 2100, window i starting at i * (max_chars - overlap).
C9_ExampleLengths ==
    (ck_pc = "done" /\ Len(ck_raw) = 2500 /\ ck_max = 1200 /\ ck_ovl = 150) =>
        /\ Len(ck_chunks) = 3
        /\ <<Len(ck_chunks[1]), Len(ck_chunks[2]), Len(ck_chunks[3])>> = <<1200, 1200, 400>>
        /\ ck_starts = <<0, 1050, 2100>>
        /\ \A i \in 1..3 : ck_starts[i] = (i - 1) * (ck_max - ck_ovl)

\* The 2500-character text was chunked with the default window.
C9_Witness ==
    /\ ck_pc = "done"
    /\ Len(ck_raw) = 2500
    /\ ck_max = DefaultMaxChars /\ ck_ovl = DefaultOverlap
    /\ Len(ck_chunks) = 3

(***************************************************************************)
(* Properties of _merge_segments, checked under SpecMerge.                 *)
(***************************************************************************)
\* C10: the merged texts joined with single spaces equal the segment texts
\* joined with single spaces; texts and timestamps have equal length; the
\* open buffer is emitted at the end, and no input gives no output.
C10_TextPreserved ==
    mg_pc = "done" =>
        /\ JoinSp(mg_texts) = JoinSp(SegTextsOf(mg_segs))
        /\ Len(mg_texts) = Len(mg_metas)
        /\ (mg_segs = <<>>) => (mg_texts = <<>> /\ mg_metas = <<>>)
        /\ (mg_segs # <<>>) =>
              /\ mg_texts # <<>>
              /\ Last(mg_metas).end_s = Last(mg_segs).end

\* Three segments were merged into two units.
C10_Witness ==
    /\ mg_pc = "done"
    /\ Len(mg_segs) = 3
    /\ Len(mg_texts) = 2

\* The number of source segments of unit k: segment texts hold no space, so
\* every space of a merged text joins two segments.
UnitSize(k) == 1 + Cardinality({j \in 1..Len(mg_texts[k]) : mg_texts[k][j] = " "})

RECURSIVE UnitFirst(_)
UnitFirst(k) == IF k = 1 THEN 1 ELSE UnitFirst(k - 1) + UnitSize(k - 1)

UnitLast(k) == UnitFirst(k) + UnitSize(k) - 1

UnitOf(i) == CHOOSE k \in 1..Len(mg_texts) : UnitFirst(k) <= i /\ i <= UnitLast(k)

UnitSpan(k) == mg_metas[k].end_s - mg_metas[k].start_s

GapsWithinUnits ==
    \A k \in 1..Len(mg_texts) :
        \A i \in UnitFirst(k)..(UnitLast(k) - 1) :
            mg_segs[i + 1].start - mg_segs[i].end <= mg_par.max_gap

\* C11: every emitted unit has end_s - start_s <= max_span_s, and two
\* consecutive source segments merged into one unit are at most max_gap_s
\* apart.
C11_SpanAndGap ==
    mg_pc = "done" =>
        /\ \A k \in 1..Len(mg_texts) : UnitSpan(k) <= mg_par.max_span
        /\ GapsWithinUnits

\* C11, amended: the span bound holds for every unit merged from two or
\* more segments; a unit made of one segment carries that segment's own
\* start and end, however far apart; the gap bound holds in every unit.
C11_SpanOfMergedAndGap ==
    mg_pc = "done" =>
        /\ \A k \in 1..Len(mg_texts) :
              /\ UnitSize(k) >= 2 => UnitSpan(k) <= mg_par.max_span
              /\ UnitSize(k) = 1 =>
                    /\ mg_metas[k].start_s = mg_segs[UnitFirst(k)].start
                    /\ mg_metas[k].end_s = mg_segs[UnitFirst(k)].end
        /\ GapsWithinUnits

\* One unit was merged from two segments and another is a single segment
\* longer than max_span_s.
C11_Witness ==
    /\ mg_pc = "done"
    /\ \E k \in 1..Len(mg_texts) : UnitSize(k) >= 2
    /\ \E k \in 1..Len(mg_texts) : UnitSize(k) = 1 /\ UnitSpan(k) > mg_par.max_span

\* The three conditions of lines 140-143 for segment i + 1, against the
\* buffer that was opened by segment b and holds the segments b..i.
Fits(b, i) ==
    /\ mg_segs[i + 1].end - mg_segs[b].start <= mg_par.max_span
    /\ mg_segs[i + 1].start - mg_segs[i].end <= mg_par.max_gap
    /\ Len(JoinSp(SegTextsOf(SubSeq(mg_segs, b, i)))) + 1 + Len(mg_segs[i + 1].text)
           <= mg_par.max_chars

\* C17: one greedy pass from left to right: a segment joins the open buffer
\* (texts joined with one space, end taken from the segment) exactly when
\* the span, gap and character conditions all hold against the buffer,
\* otherwise the buffer is emitted and the segment opens the next one; the
\* worked example gives (0, 4, "hi there") and (70, 72, "later").
C17_GreedyPass ==
    (mg_pc = "done" /\ mg_segs # <<>>) =>
        /\ UnitLast(Len(mg_texts)) = Len(mg_segs)
        /\ \A k \in 1..Len(mg_texts) :
              /\ mg_texts[k] = JoinSp(SegTextsOf(SubSeq(mg_segs, UnitFirst(k), UnitLast(k))))
              /\ mg_metas[k].start_s = mg_segs[UnitFirst(k)].start
              /\ mg_metas[k].end_s = mg_segs[UnitLast(k)].end
        /\ \A i \in 1..(Len(mg_segs) - 1) :
              (UnitOf(i + 1) = UnitOf(i)) <=> Fits(UnitFirst(UnitOf(i)), i)
        /\ (mg_segs = ExampleSegs /\ mg_par = DefaultMergeParams) =>
              /\ mg_texts = << <<"h", "i", " ", "t", "h", "e", "r", "e">>,
                               <<"l", "a", "t", "e", "r">> >>
              /\ mg_metas = << [start_s |-> 0, end_s |-> 40],
                               [start_s |-> 700, end_s |-> 720] >>

\* The worked example was merged into its two units.
C17_Witness ==
    /\ mg_pc = "done"
    /\ mg_segs = ExampleSegs
    /\ mg_par = DefaultMergeParams
    /\ Len(mg_texts) = 2

(***************************************************************************)
(* Properties of retrieval, checked under SpecRetrieve.                    *)
(***************************************************************************)
\* C12: a retrieval that returns with top_k >= 0 returns exactly
\* min(top_k, number of pre-fetched candidates) results, so never more than
\* top_k, and no pre-fetched candidate twice.
C12_ResultCount ==
    (rt.status = "returned" /\ rt.top_k >= 0) =>
        /\ Len(rt.out) = Min(rt.top_k, Len(rt.docs))
        /\ Len(rt.out) <= rt.top_k
        /\ \A i, j \in 1..Len(rt.out) : i # j => rt.out[i].id # rt.out[j].id
        /\ \A i \in 1..Len(rt.out) : \E j \in 1..Len(rt.docs) : rt.docs[j].id = rt.out[i].id

\* Three candidates were pre-fetched and top_k = 2 of them returned.
C12_Witness ==
    /\ rt.status = "returned"
    /\ Len(rt.docs) = 3
    /\ rt.top_k = 2
    /\ Len(rt.out) = 2

\* sim in units of 1/25, between the texts of the query and of entries
Sim(t, u) == _cosine_similarity(Embedding(t), Embedding(u))

\* The MMR value of candidate c once the results before position p are
\* selected: 0.7 sim(query, c) - 0.3 max sim(c, selected), in units of 1/250.
MmrValue(c, p) ==
    LET sel == {Sim(c.doc, rt.out[j].text) : j \in 1..(p - 1)}
    IN 7 * Sim(rt.text, c.doc) - 3 * (IF sel = {} THEN 0 ELSE CHOOSE m \in sel : \A x \in sel : x <= m)

\* C13: the results are in MMR selection order: the result at each position
\* is a candidate not selected before it that maximises the MMR value among
\* the candidates not selected before it; the first result has maximal
\* similarity to the query among all pre-fetched candidates.
C13_MmrOrder ==
    rt.status = "returned" =>
        /\ \A p \in 1..Len(rt.out) :
              LET before == {rt.out[j].id : j \in 1..(p - 1)}
                  me == CHOOSE j \in 1..Len(rt.docs) : rt.docs[j].id = rt.out[p].id
              IN /\ rt.out[p].id \notin before
                 /\ \A j \in 1..Len(rt.docs) :
                       rt.docs[j].id \notin before =>
                           MmrValue(rt.docs[j], p) <= MmrValue(rt.docs[me], p)
        /\ rt.out # <<>> =>
              \A j \in 1..Len(rt.docs) : Sim(rt.text, rt.docs[j].doc) <= Sim(rt.text, rt.out[1].text)

\* The second result is less similar to the query than a candidate that is
\* returned after it: the order is not the order of raw similarity.
C13_Witness ==
    /\ rt.status = "returned"
    /\ Len(rt.out) >= 3
    /\ Sim(rt.text, rt.out[2].text) < Sim(rt.text, rt.out[3].text)

(***************************************************************************)
(* Properties of chat context assembly, checked under SpecChat.  The store *)
(* does not change while a request is being answered.                      *)
(***************************************************************************)
ChatGroups == list_groups(db, chat.request.board_id)

ChatMentioned == Mentioned(ChatGroups, chat.request.query)

MembersOf(g) == NameToIds(list_items(db, chat.request.board_id), Canon(g.name))

\* Some embedding call of the request raised.
EmbeddingRaised == \E j \in 1..Len(chat.calls) : chat.calls[j].raised

UnscopedCalls == {j \in 1..Len(chat.calls) : chat.calls[j].scope = "unscoped"}

\* The contexts that begin with the label of the group of that name.
BlocksOf(name) ==
    {j \in 1..Len(chat.contexts) :
        SubSeq(chat.contexts[j].text, 1, Len(GroupHeader(name))) = GroupHeader(name)}

\* C14: a chat request in which an embedding call raised, in the
\* group-scoped stage or in the unscoped retrieval, ends with an error and
\* returns no answer.
C14_EmbeddingFailureSurfaces ==
    (chat.status # "idle" /\ EmbeddingRaised) => chat.status = "raised"

\* C15: a request that returns, and whose query mentions groups of the
\* board with member items, returns exactly one labeled block for each of
\* these groups, beginning "=== GROUP <name> ===".
C15_OneBlockPerMentionedGroup ==
    (chat.status = "returned" /\ ~EmbeddingRaised) =>
        \A k \in 1..Len(ChatMentioned) :
            MembersOf(ChatMentioned[k]) # <<>> =>
                Cardinality(BlocksOf(ChatMentioned[k].name)) = 1

\* C16: every chat request on a board, on whichever path and unless the
\* embedding or the chat service fails, returns contexts that end with one
\* description entry for each group of the board with a non-empty
\* description.
C16_EndsWithDescriptions ==
    (/\ chat.status # "idle"
     /\ chat.request.board_id # NoBoard
     /\ ~EmbeddingRaised
     /\ chat.error # "ChatError") =>
        /\ chat.status = "returned"
        /\ LET described == SelectSeq(ChatGroups, LAMBDA g : g.template # <<>>)
               n == Len(chat.contexts)
           IN /\ n >= Len(described)
              /\ \A i \in 1..Len(described) :
                    chat.contexts[n - Len(described) + i].text = Description(described[i])

\* C19: retrieval is run unscoped only when the query mentions no group;
\* when it mentions one, retrieval is run only per mentioned group, on the
\* member ids of that group; the summaries fallback is taken only when
\* retrieval returned nothing and an allow-list was given.
C19_UnscopedOnlyWithoutMention ==
    chat.status # "idle" =>
        /\ UnscopedCalls # {} => ChatMentioned = <<>>
        /\ ChatMentioned # <<>> =>
              \A j \in 1..Len(chat.calls) :
                  \E k \in 1..Len(ChatMentioned) :
                      /\ chat.calls[j].group = ChatMentioned[k].name
                      /\ chat.calls[j].allowed = MembersOf(ChatMentioned[k])
        /\ chat.path = "summaries" =>
              /\ chat.request.item_ids # <<>>
              /\ \E j \in UnscopedCalls : chat.calls[j].out = <<>>

\* C19, amended: unscoped retrieval is run exactly when the group-scoped
\* stage has aggregated no block (no group mentioned, nothing to put in a
\* block, or the stage abandoned by an exception); every group-scoped
\* retrieval is that of a mentioned group on its member ids; the summaries
\* fallback is taken only after an unscoped retrieval that returned nothing,
\* with an allow-list.
C19_UnscopedWhenNoBlock ==
    (chat.status # "idle" /\ chat.path # "shortcut") =>
        /\ UnscopedCalls # {} <=> chat.scoped_contexts = <<>>
        /\ \A j \in UnscopedCalls :
              j = Len(chat.calls) /\ chat.calls[j].allowed = chat.request.item_ids
        /\ \A j \in (1..Len(chat.calls)) \ UnscopedCalls :
              \E k \in 1..Len(ChatMentioned) :
                  /\ chat.calls[j].group = ChatMentioned[k].name
                  /\ chat.calls[j].allowed = MembersOf(ChatMentioned[k])
                  /\ chat.calls[j].allowed # <<>>
        /\ chat.path = "summaries" =>
              /\ chat.request.item_ids # <<>>
              /\ \E j \in UnscopedCalls : chat.calls[j].out = <<>>

\* A request that mentions a group returned after an unscoped retrieval,
\* no exception having been absorbed; and so did one after summaries.
C19_Witness ==
    /\ chat.status = "returned"
    /\ ChatMentioned # <<>>
    /\ chat.absorbed = "None"
    /\ UnscopedCalls # {}
    /\ chat.path = "summaries"

(***************************************************************************)
(* Properties of concurrent ingestion, checked under SpecConc              *)
(***************************************************************************)
ConcDone == \A p \in Procs : cc.procs[p].pc = "done"

ConcAllPresent ==
    \A p \in Procs :
        /\ p \in ItemIds(db)
        /\ ChunksOf(db, p) = ConcChunks(p, cc.procs[p].n)

\* C20: under every interleaving of the load and save steps of add_item
\* and save_chunks of two requests for different items, once both have
\* completed the store holds both items and all chunks of both.
C20_NoWriteLost == ConcDone => ConcAllPresent

\* C20, amended: once both requests have completed, the store holds both
\* items and all chunks of both provided every save wrote a snapshot that
\* had been loaded after the save before it.
C20_NoWriteLostWithoutStaleSave == (ConcDone /\ ~cc.stale) => ConcAllPresent

\* Both requests completed, their steps interleaved (the second added its
\* item before the first saved its chunks: three saves had been made when
\* the first loaded for save_chunks), without a stale save.
C20_Witness ==
    /\ ConcDone
    /\ ~cc.stale
    /\ ConcAllPresent
    /\ \E p \in Procs : cc.procs[p].ver = 3 /\ cc.procs[p].n = MaxConcChunks

(***************************************************************************)
(* Properties of deletion, checked under SpecDelete.  Every entry of the   *)
(* collection was added by the ingestion of an item, so an entry whose     *)
(* item is not in the store is that of a deleted item.                     *)
(***************************************************************************)
\* C21: a retrieval returns no context whose item_id is that of an item
\* deleted before the call (by delete_item_and_chunks or by delete_board):
\* every returned context belongs to an item of the store.
C21_DeletedNeverReturned ==
    [][(rt.status = "idle" /\ rt'.status = "returned") =>
          \A i \in 1..Len(rt'.out) : rt'.out[i].item_id \in ItemIds(db)]_vars

(***************************************************************************)
(* Properties of the item allow-list of a chat request, checked under      *)
(* SpecChat.  The text of a group's block is made of the texts of the      *)
(* contexts that the group's retrieval returned.                           *)
(***************************************************************************)
ChatAllowed == SeqToSet(chat.request.item_ids)

\* C22: when a chat request that returns carries an item allow-list, every
\* returned context that holds item text comes from an item of the
\* allow-list: the contexts of the unscoped path and of the summaries, and
\* on the group-scoped path the retrieved contexts put in the blocks.
C22_AllowListRespected ==
    (chat.status = "returned" /\ chat.request.item_ids # <<>>) =>
        /\ \A j \in 1..Len(chat.contexts) :
              "item_id" \in DOMAIN chat.contexts[j] =>
                  chat.contexts[j].item_id \in ChatAllowed
        /\ chat.path = "scoped" =>
              \A j \in 1..Len(chat.calls) :
                  \A i \in 1..Len(chat.calls[j].out) :
                      chat.calls[j].out[i].item_id \in ChatAllowed

====
